---- MODULE Spec2Model ----
(***************************************************************************)
(* Model of src/openapi/helpers/types.ts: the table `Types` of factory     *)
(* functions that map a shape descriptor (`parameters`) to a joi schema    *)
(* node.  Every factory is a pure function; it is modelled as an operator  *)
(* (TypesString, TypesUuid, ...) and as an action that applies it to the   *)
(* descriptor drawn in Init.  The joi builder calls the factories chain    *)
(* (joi 17.3.0, the version pinned in package.json) are modelled by what   *)
(* they do to the schema node: flags, the allowed-value set, the rule      *)
(* list, the metas and the examples.                                       *)
(***************************************************************************)
EXTENDS Integers, Sequences, FiniteSets, TLC

\* Largest number a caller supplies for minLength/maxLength/minValue/maxValue/
\* default/example; the supplied numbers range over -1..MaxNum.
MaxNum == 1
\* Longest `values` sequence of an enumeration descriptor.
MaxValues == 2

(***************************************************************************)
(* JavaScript values.  Every value is a record of the same shape so that   *)
(* any two values can be compared: t is the result of typeof (with "null", *)
(* "array" and "schema" told apart from other objects), n the number,      *)
(* s the string (or the name of an object), e the elements of an array.    *)
(***************************************************************************)
Undefined == [t |-> "undefined", n |-> 0, s |-> "", e |-> <<>>]
Null == [t |-> "null", n |-> 0, s |-> "", e |-> <<>>]
Num(i) == [t |-> "number", n |-> i, s |-> "", e |-> <<>>]
Str(x) == [t |-> "string", n |-> 0, s |-> x, e |-> <<>>]
Bool(b) == [t |-> "boolean", n |-> IF b THEN 1 ELSE 0, s |-> "", e |-> <<>>]
Obj(x) == [t |-> "object", n |-> 0, s |-> x, e |-> <<>>]
Schema(x) == [t |-> "schema", n |-> 0, s |-> x, e |-> <<>>]
Arr(q) == [t |-> "array", n |-> 0, s |-> "", e |-> q]

\* typeof v === "boolean" / "number"
IsBoolean(v) == v.t = "boolean"
IsNumber(v) == v.t = "number"
IsUndefined(v) == v.t = "undefined"
\* the condition of `if (v)`: undefined, null, false, 0 and "" are falsy
Truthy(v) ==
  CASE v.t = "undefined" -> FALSE
    [] v.t = "null" -> FALSE
    [] v.t = "boolean" -> v.n = 1
    [] v.t = "number" -> v.n # 0
    [] v.t = "string" -> v.s # ""
    [] OTHER -> TRUE
IsTrue(v) == v.t = "boolean" /\ v.n = 1

(***************************************************************************)
(* The schema node a joi builder holds.  error is "" for a node and the    *)
(* name of the exception once a call of the chain has thrown (the          *)
(* exception propagates: every later call of the chain leaves it).         *)
(*   presence     the flag set by required() / optional(), "" when unset   *)
(*   only         the flag set by valid(): nothing but `valids` is accepted*)
(*   valids       the values added by allow() and valid()                  *)
(*   rules        the rule list, in the order of validation                *)
(*   metas        the format hints added by meta({ format })               *)
(*   convert      "" (the preference is unset) or "false" (strict())       *)
(*   keys, items  the property map of an object, the element schemas of an *)
(*                array                                                    *)
(***************************************************************************)
BlankNode ==
  [error |-> "", type |-> "", description |-> Undefined, presence |-> "",
   default |-> Undefined, only |-> FALSE, encoding |-> "", convert |-> "",
   valids |-> {}, rules |-> <<>>, metas |-> <<>>, examples |-> <<>>,
   keys |-> Undefined, items |-> <<>>]

\* the chain is left by an exception
Throw(kind) == [BlankNode EXCEPT !.error = kind]
Threw(j) == j.error # ""

\* Joi.string(), Joi.binary(), Joi.number(), Joi.boolean(), Joi.object(), Joi.array()
JoiString == [BlankNode EXCEPT !.type = "string"]
JoiBinary == [BlankNode EXCEPT !.type = "binary"]
JoiNumber == [BlankNode EXCEPT !.type = "number"]
JoiBoolean == [BlankNode EXCEPT !.type = "boolean"]
JoiObject == [BlankNode EXCEPT !.type = "object"]
JoiArray == [BlankNode EXCEPT !.type = "array"]

\* any.description(desc): desc must be a non-empty string
Description(j, desc) ==
  IF Threw(j) THEN j
  ELSE IF desc.t = "string" /\ desc.s # "" THEN [j EXCEPT !.description = desc]
  ELSE Throw("AssertionError")

\* any.required(), any.optional(): the presence flag
Required(j) == IF Threw(j) THEN j ELSE [j EXCEPT !.presence = "required"]
Optional(j) == IF Threw(j) THEN j ELSE [j EXCEPT !.presence = "optional"]

\* any.allow(null)
AllowNull(j) == IF Threw(j) THEN j ELSE [j EXCEPT !.valids = @ \cup {Null}]

\* The rule list without the rules called name.
RECURSIVE RuleRemove(_, _)
RuleRemove(rules, name) ==
  IF rules = <<>> THEN <<>>
  ELSE IF Head(rules).name = name THEN RuleRemove(Tail(rules), name)
  ELSE <<Head(rules)>> \o RuleRemove(Tail(rules), name)

\* $_addRule: a rule replaces the rule of the same name and goes to the end
AddRule(j, name, arg) ==
  IF Threw(j) THEN j
  ELSE [j EXCEPT !.rules = Append(RuleRemove(@, name), [name |-> name, arg |-> arg])]

\* the limit of string/binary/array min() and max(): a non-negative safe integer
IsLimit(v) == v.t = "number" /\ v.n >= 0

\* string.min/max, binary.min/max, array.min/max, number.min/max
Min(j, limit) ==
  IF Threw(j) THEN j
  ELSE IF j.type = "number" THEN
    (IF IsNumber(limit) THEN AddRule(j, "min", limit) ELSE Throw("AssertionError"))
  ELSE IF IsLimit(limit) THEN AddRule(j, "min", limit)
  ELSE Throw("AssertionError")
Max(j, limit) ==
  IF Threw(j) THEN j
  ELSE IF j.type = "number" THEN
    (IF IsNumber(limit) THEN AddRule(j, "max", limit) ELSE Throw("AssertionError"))
  ELSE IF IsLimit(limit) THEN AddRule(j, "max", limit)
  ELSE Throw("AssertionError")

\* any.default(value): the value must not be undefined
Default(j, value) ==
  IF Threw(j) THEN j
  ELSE IF IsUndefined(value) THEN Throw("AssertionError")
  ELSE [j EXCEPT !.default = value]

\* any.example(example): appended to the examples
Example(j, example) ==
  IF Threw(j) THEN j
  ELSE IF IsUndefined(example) THEN Throw("AssertionError")
  ELSE [j EXCEPT !.examples = Append(@, example)]

\* the set of elements of a sequence
Elems(q) == {q[i] : i \in 1..Len(q)}

\* any.valid(...values): values is spread, so it must be an array; no element
\* may be undefined or an array; the values join `valids` and `only` is set
\* when the node has a set of valids.
Valid(j, values) ==
  IF Threw(j) THEN j
  ELSE IF values.t # "array" THEN Throw("TypeError")
  ELSE IF \E v \in Elems(values.e) : v.t \in {"undefined", "array"}
    THEN Throw("AssertionError")
  ELSE LET all == j.valids \cup Elems(values.e)
       IN [j EXCEPT !.valids = all, !.only = (all # {})]

\* any.meta({ format }): appended to the metas
Meta(j, format) == IF Threw(j) THEN j ELSE [j EXCEPT !.metas = Append(@, format)]

\* binary.encoding(encoding)
Encoding(j, enc) == IF Threw(j) THEN j ELSE [j EXCEPT !.encoding = enc]

\* any.strict(): the preference convert: false
Strict(j) == IF Threw(j) THEN j ELSE [j EXCEPT !.convert = "false"]

\* object.keys(schema): undefined allows every key, a joi schema is refused
Keys(j, schema) ==
  IF Threw(j) THEN j
  ELSE IF IsUndefined(schema) THEN [j EXCEPT !.keys = Null]
  ELSE IF schema.t # "object" THEN Throw("AssertionError")
  ELSE [j EXCEPT !.keys = schema]

\* array.items(type): the type is compiled, and undefined does not compile
Items(j, type) ==
  IF Threw(j) THEN j
  ELSE IF type.t \in {"undefined", "array"} THEN Throw("AssertionError")
  ELSE [j EXCEPT !.items = Append(@, type)]

(***************************************************************************)
(* Shape descriptors.  A descriptor is the object a factory is called      *)
(* with; a field it does not carry reads as undefined.  t is "object" for  *)
(* a descriptor and "undefined" when the factory is called with none.      *)
(***************************************************************************)
EmptyParameters ==
  [t |-> "object", description |-> Undefined, required |-> Undefined,
   nullable |-> Undefined, minLength |-> Undefined, maxLength |-> Undefined,
   minValue |-> Undefined, maxValue |-> Undefined, default |-> Undefined,
   example |-> Undefined, values |-> Undefined, properties |-> Undefined,
   arrayType |-> Undefined]
NoParameters == [EmptyParameters EXCEPT !.t = "undefined"]

\* if (parameters)
Given(parameters) == parameters.t # "undefined"

\* The options String, Binary, DateTime and Boolean share:
\*   if (description) ...; if (typeof required === "boolean") ...;
\*   if (typeof nullable === "boolean" && nullable) ...
ApplyDescription(j, parameters) ==
  IF Truthy(parameters.description) THEN Description(j, parameters.description) ELSE j
\* ApplyRequired with the test of Types.Number: required: false is dropped
ApplyRequiredTrueOnly(j, parameters) ==
  IF IsBoolean(parameters.required) /\ IsTrue(parameters.required) THEN Required(j) ELSE j
ApplyRequired(j, parameters) ==
  IF IsBoolean(parameters.required)
    THEN (IF IsTrue(parameters.required) THEN Required(j) ELSE Optional(j))
    ELSE j
\* ApplyNullable without `&& nullable`: any boolean adds null
ApplyNullableAnyBoolean(j, parameters) ==
  IF IsBoolean(parameters.nullable) THEN AllowNull(j) ELSE j
ApplyNullable(j, parameters) ==
  IF IsBoolean(parameters.nullable) /\ IsTrue(parameters.nullable) THEN AllowNull(j) ELSE j
\* if (minLength) ...; if (maxLength) ...
ApplyMinLength(j, parameters) ==
  IF Truthy(parameters.minLength) THEN Min(j, parameters.minLength) ELSE j
ApplyMaxLength(j, parameters) ==
  IF Truthy(parameters.maxLength) THEN Max(j, parameters.maxLength) ELSE j
\* if (parameters.default) ...; if (parameters.example) ...
\* ApplyDefault with the test `!== undefined` in place of truthiness
ApplyDefaultIfDefined(j, parameters) ==
  IF ~IsUndefined(parameters.default) THEN Default(j, parameters.default) ELSE j
ApplyDefault(j, parameters) ==
  IF Truthy(parameters.default) THEN Default(j, parameters.default) ELSE j
ApplyExample(j, parameters) ==
  IF Truthy(parameters.example) THEN Example(j, parameters.example) ELSE j

\* Types.String without `if (parameters)`: the fields are read from undefined
TypesStringNoGuard(parameters) ==
  IF ~Given(parameters) THEN Throw("TypeError")
  ELSE ApplyExample(ApplyDefault(ApplyMaxLength(ApplyMinLength(ApplyNullable(
         ApplyRequired(ApplyDescription(JoiString, parameters), parameters),
         parameters), parameters), parameters), parameters), parameters)

\* Types.String
TypesString(parameters) ==
  IF ~Given(parameters) THEN JoiString
  ELSE ApplyExample(ApplyDefault(ApplyMaxLength(ApplyMinLength(ApplyNullable(
         ApplyRequired(ApplyDescription(JoiString, parameters), parameters),
         parameters), parameters), parameters), parameters), parameters)

\* parameters.values, read from the descriptor: a TypeError without one
ValuesOf(parameters) == IF Given(parameters) THEN parameters.values ELSE Undefined

\* Types.StringEnum
TypesStringEnum(parameters) == Valid(TypesString(parameters), ValuesOf(parameters))

\* Types.Email
TypesEmail(parameters) == AddRule(TypesString(parameters), "email", Undefined)

\* Types.Password
TypesPassword(parameters) == Meta(TypesString(parameters), "password")

\* Types.Uuid without .min(36).max(36)
TypesUuidUnforced(parameters) ==
  Meta(AddRule(TypesString(parameters), "guid", Str("uuidv4")), "uuid")

\* Types.Uuid
TypesUuid(parameters) ==
  Max(Min(Meta(AddRule(TypesString(parameters), "guid", Str("uuidv4")), "uuid"),
          Num(36)), Num(36))

\* Types.Uri
TypesUri(parameters) == Meta(AddRule(TypesString(parameters), "uri", Undefined), "uri")

\* Types.Hostname
TypesHostname(parameters) ==
  Meta(AddRule(TypesString(parameters), "hostname", Undefined), "hostname")

\* Types.Ipv4
TypesIpv4(parameters) ==
  Max(Min(Meta(AddRule(TypesString(parameters), "ip", Str("ipv4")), "ipv4"),
          Num(7)), Num(15))

\* Types.Ipv6
TypesIpv6(parameters) ==
  Max(Min(Meta(AddRule(TypesString(parameters), "ip", Str("ipv6")), "ipv6"),
          Num(3)), Num(45))

\* Types.Binary
TypesBinary(parameters) ==
  IF ~Given(parameters) THEN JoiBinary
  ELSE ApplyExample(ApplyDefault(ApplyMaxLength(ApplyMinLength(ApplyNullable(
         ApplyRequired(ApplyDescription(JoiBinary, parameters), parameters),
         parameters), parameters), parameters), parameters), parameters)

\* Types.Byte
TypesByte(parameters) == Encoding(TypesBinary(parameters), "base64")

\* Types.DateTime with the default and the example of Types.String
TypesDateTimeWithDefault(parameters) ==
  LET joiType == Max(AddRule(JoiString, "isoDate", Undefined), Num(24))
  IN IF ~Given(parameters) THEN joiType
     ELSE ApplyExample(ApplyDefault(ApplyNullable(ApplyRequired(ApplyDescription(
            joiType, parameters), parameters), parameters), parameters), parameters)

\* Types.DateTime
TypesDateTime(parameters) ==
  LET joiType == Max(AddRule(JoiString, "isoDate", Undefined), Num(24))
  IN IF ~Given(parameters) THEN joiType
     ELSE ApplyNullable(ApplyRequired(ApplyDescription(joiType, parameters),
            parameters), parameters)

\* Types.Date without .max(10)
TypesDateMinOnly(parameters) == Min(Meta(TypesDateTime(parameters), "date"), Num(10))

\* Types.Date
TypesDate(parameters) ==
  Max(Min(Meta(TypesDateTime(parameters), "date"), Num(10)), Num(10))

\* Types.Number with the truthiness tests of Types.String
TypesNumberTruthy(parameters) ==
  IF ~Given(parameters) THEN JoiNumber
  ELSE
    LET j1 == ApplyDescription(JoiNumber, parameters)
        j2 == IF IsBoolean(parameters.required) /\ IsTrue(parameters.required)
                THEN Required(j1) ELSE j1
        j3 == ApplyNullable(j2, parameters)
        j4 == IF Truthy(parameters.minValue) THEN Min(j3, parameters.minValue) ELSE j3
        j5 == IF Truthy(parameters.maxValue) THEN Max(j4, parameters.maxValue) ELSE j4
    IN ApplyExample(ApplyDefault(j5, parameters), parameters)

\* Types.Number
TypesNumber(parameters) ==
  IF ~Given(parameters) THEN JoiNumber
  ELSE
    LET j1 == ApplyDescription(JoiNumber, parameters)
        j2 == IF IsBoolean(parameters.required) /\ IsTrue(parameters.required)
                THEN Required(j1) ELSE j1
        j3 == ApplyNullable(j2, parameters)
        j4 == IF IsNumber(parameters.minValue) THEN Min(j3, parameters.minValue) ELSE j3
        j5 == IF IsNumber(parameters.maxValue) THEN Max(j4, parameters.maxValue) ELSE j4
        j6 == IF IsNumber(parameters.default) THEN Default(j5, parameters.default) ELSE j5
    IN IF IsNumber(parameters.example) THEN Example(j6, parameters.example) ELSE j6

\* Types.NumberEnum
TypesNumberEnum(parameters) == Valid(TypesNumber(parameters), ValuesOf(parameters))

\* Types.Integer
TypesInteger(parameters) == AddRule(TypesNumber(parameters), "integer", Undefined)

\* Types.IntegerEnum with .allow(...values) in place of .valid(...values)
TypesIntegerEnumAllow(parameters) ==
  LET j == Valid(TypesInteger(parameters), ValuesOf(parameters))
  IN IF Threw(j) THEN j ELSE [j EXCEPT !.only = FALSE]

\* Types.IntegerEnum
TypesIntegerEnum(parameters) == Valid(TypesInteger(parameters), ValuesOf(parameters))

\* Types.Boolean
TypesBoolean(parameters) ==
  LET j0 == Strict(JoiBoolean)
  IN IF ~Given(parameters) THEN j0
     ELSE
       LET j3 == ApplyNullable(ApplyRequired(ApplyDescription(j0, parameters),
                   parameters), parameters)
           j4 == IF IsBoolean(parameters.default) THEN Default(j3, parameters.default)
                 ELSE j3
       IN IF IsBoolean(parameters.example) THEN Example(j4, parameters.example) ELSE j4

\* if (nullable) of Object and Array
ApplyNullableTruthy(j, parameters) ==
  IF Truthy(parameters.nullable) THEN AllowNull(j) ELSE j

\* Types.Object: the descriptor is destructured, a TypeError without one
TypesObject(parameters) ==
  IF ~Given(parameters) THEN Throw("TypeError")
  ELSE ApplyExample(ApplyDefault(ApplyNullableTruthy(ApplyRequired(ApplyDescription(
         Keys(JoiObject, parameters.properties), parameters), parameters),
         parameters), parameters), parameters)

\* Types.Array without .items(arrayType)
TypesArrayNoItems(parameters) ==
  IF ~Given(parameters) THEN Throw("TypeError")
  ELSE ApplyMaxLength(ApplyMinLength(ApplyExample(ApplyDefault(ApplyNullableTruthy(
         ApplyRequired(ApplyDescription(JoiArray, parameters), parameters),
         parameters), parameters), parameters), parameters), parameters)

\* Types.Array: the descriptor is destructured, a TypeError without one
TypesArray(parameters) ==
  IF ~Given(parameters) THEN Throw("TypeError")
  ELSE ApplyMaxLength(ApplyMinLength(ApplyExample(ApplyDefault(ApplyNullableTruthy(
         ApplyRequired(ApplyDescription(Items(JoiArray, parameters.arrayType),
         parameters), parameters), parameters), parameters), parameters),
         parameters), parameters)

\* Types[name](parameters): the table of factories
Types(name, parameters) ==
  CASE name = "String" -> TypesString(parameters)
    [] name = "StringEnum" -> TypesStringEnum(parameters)
    [] name = "Email" -> TypesEmail(parameters)
    [] name = "Password" -> TypesPassword(parameters)
    [] name = "Uuid" -> TypesUuid(parameters)
    [] name = "Uri" -> TypesUri(parameters)
    [] name = "Hostname" -> TypesHostname(parameters)
    [] name = "Ipv4" -> TypesIpv4(parameters)
    [] name = "Ipv6" -> TypesIpv6(parameters)
    [] name = "Binary" -> TypesBinary(parameters)
    [] name = "Byte" -> TypesByte(parameters)
    [] name = "DateTime" -> TypesDateTime(parameters)
    [] name = "Date" -> TypesDate(parameters)
    [] name = "Number" -> TypesNumber(parameters)
    [] name = "NumberEnum" -> TypesNumberEnum(parameters)
    [] name = "Integer" -> TypesInteger(parameters)
    [] name = "IntegerEnum" -> TypesIntegerEnum(parameters)
    [] name = "Boolean" -> TypesBoolean(parameters)
    [] name = "Object" -> TypesObject(parameters)
    [] name = "Array" -> TypesArray(parameters)

(***************************************************************************)
(* The descriptors a caller builds.  The three common options take every   *)
(* state (absent, and both values; the description also the empty string); *)
(* the other fields follow the parameter types of the source, one family   *)
(* per type.  A factory is a JavaScript function, so every factory can be  *)
(* called with a descriptor of every family, or with none.                 *)
(***************************************************************************)
Numbers == {Num(i) : i \in -1..MaxNum}
OptNumber == {Undefined} \cup Numbers
OptString == {Undefined, Str(""), Str("a")}
OptBoolean == {Undefined, Bool(FALSE), Bool(TRUE)}
OptObject == {Undefined, Obj("{}")}

\* the arrays of at most MaxValues elements of S
ArraysOf(S) == {Arr(q) : q \in UNION {[1..n -> S] : n \in 0..MaxValues}}

CommonParameters ==
  {[EmptyParameters EXCEPT !.description = d, !.required = r, !.nullable = n] :
     d \in {Undefined, Str(""), Str("text")}, r \in OptBoolean, n \in OptBoolean}

\* StringParameters (Email, Uri, Hostname, Binary, Byte; Password, Uuid, Ip and
\* Date parameters carry a part of these fields)
StringParameters ==
  {[c EXCEPT !.minLength = lo, !.maxLength = hi, !.default = d, !.example = x] :
     c \in CommonParameters, lo \in OptNumber, hi \in OptNumber,
     d \in OptString, x \in OptString}

\* StringEnumParameters, with `values` absent as well
StringEnumParameters ==
  {[c EXCEPT !.values = v, !.default = d, !.example = x] :
     c \in CommonParameters,
     v \in {Undefined} \cup ArraysOf({Str("a"), Str("b")}),
     d \in OptString, x \in OptString}

\* IntegerParameters
IntegerParameters ==
  {[c EXCEPT !.minValue = lo, !.maxValue = hi, !.default = d, !.example = x] :
     c \in CommonParameters, lo \in OptNumber, hi \in OptNumber,
     d \in {Undefined, Num(0), Num(1)}, x \in {Undefined, Num(0), Num(1)}}

\* IntegerEnumParameters and NumberEnumParameters, with `values` absent as well
IntegerEnumParameters ==
  {[c EXCEPT !.values = v, !.default = d, !.example = x] :
     c \in CommonParameters,
     v \in {Undefined} \cup ArraysOf({Num(0), Num(1)}),
     d \in {Undefined, Num(0), Num(1)}, x \in {Undefined, Num(0), Num(1)}}

\* BooleanParameters
BooleanParameters ==
  {[c EXCEPT !.default = d, !.example = x] :
     c \in CommonParameters, d \in OptBoolean, x \in OptBoolean}

\* ObjectParameters, with `properties` absent as well
ObjectParameters ==
  {[c EXCEPT !.properties = k, !.default = d, !.example = x] :
     c \in CommonParameters, k \in {Undefined, Obj("{ id: Types.Uuid() }")},
     d \in OptObject, x \in OptObject}

\* ArrayParameters, with `arrayType` absent as well
ArrayParameters ==
  {[c EXCEPT !.arrayType = a, !.minLength = lo, !.maxLength = hi,
             !.default = d, !.example = x] :
     c \in CommonParameters, a \in {Undefined, Schema("Types.Integer()")},
     lo \in OptNumber, hi \in OptNumber, d \in OptObject, x \in OptObject}

Descriptors ==
  {NoParameters} \cup StringParameters \cup StringEnumParameters
    \cup IntegerParameters \cup IntegerEnumParameters \cup BooleanParameters
    \cup ObjectParameters \cup ArrayParameters

(***************************************************************************)
(* The state: the descriptor of the call, the factory called ("" before    *)
(* the call) and the node it returned (or the exception it left with).     *)
(***************************************************************************)
VARIABLES parameters, called, joiType
vars == <<parameters, called, joiType>>

Init ==
  /\ parameters \in Descriptors
  /\ called = ""
  /\ joiType = BlankNode

\* a call of one factory of Types with the descriptor
Call(name, node) ==
  /\ called = ""
  /\ called' = name
  /\ joiType' = node
  /\ UNCHANGED parameters

CallString == Call("String", TypesString(parameters))
CallStringEnum == Call("StringEnum", TypesStringEnum(parameters))
CallEmail == Call("Email", TypesEmail(parameters))
CallPassword == Call("Password", TypesPassword(parameters))
CallUuid == Call("Uuid", TypesUuid(parameters))
CallUri == Call("Uri", TypesUri(parameters))
CallHostname == Call("Hostname", TypesHostname(parameters))
CallIpv4 == Call("Ipv4", TypesIpv4(parameters))
CallIpv6 == Call("Ipv6", TypesIpv6(parameters))
CallBinary == Call("Binary", TypesBinary(parameters))
CallByte == Call("Byte", TypesByte(parameters))
CallDateTime == Call("DateTime", TypesDateTime(parameters))
CallDate == Call("Date", TypesDate(parameters))
CallNumber == Call("Number", TypesNumber(parameters))
CallNumberEnum == Call("NumberEnum", TypesNumberEnum(parameters))
CallInteger == Call("Integer", TypesInteger(parameters))
CallIntegerEnum == Call("IntegerEnum", TypesIntegerEnum(parameters))
CallBoolean == Call("Boolean", TypesBoolean(parameters))
CallObject == Call("Object", TypesObject(parameters))
CallArray == Call("Array", TypesArray(parameters))

Next ==
  \/ CallString \/ CallStringEnum \/ CallEmail \/ CallPassword \/ CallUuid
  \/ CallUri \/ CallHostname \/ CallIpv4 \/ CallIpv6 \/ CallBinary \/ CallByte
  \/ CallDateTime \/ CallDate \/ CallNumber \/ CallNumberEnum \/ CallInteger
  \/ CallIntegerEnum \/ CallBoolean \/ CallObject \/ CallArray

Spec == Init /\ [][Next]_vars

(***************************************************************************)
(* Reading a node.                                                         *)
(***************************************************************************)
\* the call has been made and returned a node
Returned == called # "" /\ ~Threw(joiType)

\* the rules of a node called name, in order
RulesNamed(j, name) == SelectSeq(j.rules, LAMBDA r : r.name = name)
RuleCount(j, name) == Len(RulesNamed(j, name))
\* the node has exactly one rule called name, and its argument is arg
HasRule(j, name, arg) ==
  RuleCount(j, name) = 1 /\ RulesNamed(j, name)[1].arg = arg

\* the min and max rules of a string node let a string of n characters pass
LengthAccepted(j, n) ==
  \A i \in 1..Len(j.rules) :
    /\ j.rules[i].name = "min" => n >= j.rules[i].arg.n
    /\ j.rules[i].name = "max" => n <= j.rules[i].arg.n

StringBased ==
  {"String", "StringEnum", "Email", "Password", "Uuid", "Uri", "Hostname",
   "Ipv4", "Ipv6"}
Numeric == {"Number", "NumberEnum", "Integer", "IntegerEnum"}
Enums == {"StringEnum", "NumberEnum", "IntegerEnum"}

\* C2: the node Uuid, Ipv4 or Ipv6 returns has exactly one minimum and one
\* maximum length rule, with the forced limits 36..36, 7..15 and 3..45,
\* whatever minLength and maxLength the descriptor carries: no caller-supplied
\* length survives on the node.
C2_ForcedLengthBounds ==
  /\ (called = "Uuid" /\ Returned) =>
       HasRule(joiType, "min", Num(36)) /\ HasRule(joiType, "max", Num(36))
  /\ (called = "Ipv4" /\ Returned) =>
       HasRule(joiType, "min", Num(7)) /\ HasRule(joiType, "max", Num(15))
  /\ (called = "Ipv6" /\ Returned) =>
       HasRule(joiType, "min", Num(3)) /\ HasRule(joiType, "max", Num(45))

\* Uuid has returned for a descriptor that carries a minLength and a maxLength
\* the string builder applies.
C2_Witness ==
  /\ called = "Uuid" /\ Returned
  /\ parameters.minLength = Num(1) /\ parameters.maxLength = Num(1)

\* C3: the node Date returns keeps the ISO-8601 rule of DateTime and has the
\* length bounds 10..10 (the maximum of 24 DateTime sets is replaced), so of
\* the lengths 0..24 it lets only 10 pass, while the DateTime node of the same
\* descriptor lets 9 and 11 pass.
C3_DateLength ==
  (called = "Date") =>
    /\ Returned
    /\ HasRule(joiType, "isoDate", Undefined)
    /\ HasRule(joiType, "min", Num(10)) /\ HasRule(joiType, "max", Num(10))
    /\ \A n \in 0..24 : LengthAccepted(joiType, n) <=> n = 10
    /\ LengthAccepted(TypesDateTime(parameters), 9)
    /\ LengthAccepted(TypesDateTime(parameters), 11)
    /\ ~LengthAccepted(TypesDateTime(parameters), 25)

\* Date has returned for a descriptor.
C3_Witness == called = "Date" /\ Returned /\ Given(parameters)

\* the descriptor with nothing but description, required and nullable
CommonOnly(p) ==
  [EmptyParameters EXCEPT !.t = p.t, !.description = p.description,
                          !.required = p.required, !.nullable = p.nullable]

\* C9: DateTime honours only description, required and nullable: the node is
\* the node of the descriptor restricted to these three, so a default, an
\* example, a minLength or a maxLength leaves it unchanged; and the node
\* carries the ISO-8601 rule and the maximum length 24, and nothing else of
\* the descriptor.
C9_DateTimeFrame ==
  (called = "DateTime") =>
    /\ Returned
    /\ joiType = TypesDateTime(CommonOnly(parameters))
    /\ joiType.rules = <<[name |-> "isoDate", arg |-> Undefined],
                         [name |-> "max", arg |-> Num(24)]>>
    /\ joiType.default = Undefined /\ joiType.examples = <<>>

\* DateTime has returned for a descriptor that carries a default, an example
\* and both lengths.
C9_Witness ==
  /\ called = "DateTime" /\ Returned
  /\ Truthy(parameters.default) /\ Truthy(parameters.example)
  /\ Truthy(parameters.minLength) /\ Truthy(parameters.maxLength)

\* C10: Number, Integer, NumberEnum and IntegerEnum apply each of minValue,
\* maxValue, default and example exactly when the value is of number type, 0
\* included; String, Binary and Array do not apply a minLength or maxLength of
\* 0 nor an empty-string default or example.
C10_NumberTypeCheck ==
  /\ (called \in Numeric /\ Returned) =>
       /\ IF IsNumber(parameters.minValue)
            THEN HasRule(joiType, "min", parameters.minValue)
            ELSE RuleCount(joiType, "min") = 0
       /\ IF IsNumber(parameters.maxValue)
            THEN HasRule(joiType, "max", parameters.maxValue)
            ELSE RuleCount(joiType, "max") = 0
       /\ joiType.default =
            IF IsNumber(parameters.default) THEN parameters.default ELSE Undefined
       /\ joiType.examples =
            IF IsNumber(parameters.example) THEN <<parameters.example>> ELSE <<>>
  /\ (called \in {"String", "Binary", "Array"} /\ Returned) =>
       /\ parameters.minLength = Num(0) => RuleCount(joiType, "min") = 0
       /\ parameters.maxLength = Num(0) => RuleCount(joiType, "max") = 0
       /\ parameters.default = Str("") => joiType.default = Undefined
       /\ parameters.example = Str("") => joiType.examples = <<>>

\* Number has returned for a descriptor whose four numeric fields are all 0.
C10_Witness ==
  /\ called = "Number" /\ Returned
  /\ parameters.minValue = Num(0) /\ parameters.maxValue = Num(0)
  /\ parameters.default = Num(0) /\ parameters.example = Num(0)

(***************************************************************************)
(* Validation of a value against a node, as joi runs it: a value among the *)
(* valids passes at once; with the only flag nothing else passes; then the *)
(* base type decides, then every rule.  The values validated are null,     *)
(* strings and numbers, against nodes whose rules are min, max and         *)
(* integer.                                                                *)
(***************************************************************************)
BaseAccepts(j, v) ==
  CASE j.type = "string" ->
         v.t = "string" /\ (v.s # "" \/ HasRule(j, "min", Num(0)))
    [] j.type = "number" -> v.t = "number"
    [] j.type = "boolean" -> v.t = "boolean"
    [] j.type = "binary" -> v.t = "string"
    [] j.type = "object" -> v.t = "object"
    [] j.type = "array" -> v.t = "array"

RuleHolds(j, rule, v) ==
  CASE rule.name = "min" /\ j.type = "number" -> v.n >= rule.arg.n
    [] rule.name = "max" /\ j.type = "number" -> v.n <= rule.arg.n
    [] rule.name = "min" /\ j.type = "string" -> Len(v.s) >= rule.arg.n
    [] rule.name = "max" /\ j.type = "string" -> Len(v.s) <= rule.arg.n
    [] rule.name = "integer" -> TRUE

Accepts(j, v) ==
  IF v \in j.valids THEN TRUE
  ELSE IF j.only THEN FALSE
  ELSE BaseAccepts(j, v) /\ \A i \in 1..Len(j.rules) : RuleHolds(j, j.rules[i], v)

\* C4: on every shape but the numeric ones, required: true, required: false
\* and required omitted give the three presence states required, optional and
\* unset; on Number, NumberEnum, Integer and IntegerEnum required: true gives
\* required, and the node of required: false is the node of the descriptor
\* without required.
C4_Requiredness ==
  (Returned /\ Given(parameters)) =>
    IF called \in Numeric
      THEN /\ joiType.presence = IF IsTrue(parameters.required) THEN "required" ELSE ""
           /\ parameters.required = Bool(FALSE) =>
                joiType = Types(called, [parameters EXCEPT !.required = Undefined])
      ELSE joiType.presence =
             CASE parameters.required = Bool(TRUE) -> "required"
               [] parameters.required = Bool(FALSE) -> "optional"
               [] OTHER -> ""

\* Integer has returned for required: false and a numeric minValue.
C4_Witness ==
  /\ called = "Integer" /\ Returned
  /\ parameters.required = Bool(FALSE) /\ IsNumber(parameters.minValue)

TestValues(name) ==
  IF name = "StringEnum" THEN {Str("a"), Str("b"), Str("c")}
  ELSE {Num(i) : i \in -1..MaxNum + 1}

\* C6 as stated, for a `values` that is not empty: the node of StringEnum,
\* NumberEnum and IntegerEnum accepts a value (null included) exactly when it
\* is in `values`, whatever the other options of the descriptor.
C6_Original ==
  (called \in Enums /\ Returned /\ parameters.values.e # <<>>) =>
    \A v \in TestValues(called) \cup {Null} :
      Accepts(joiType, v) <=> v \in Elems(parameters.values.e)

\* C6, amended: the node accepts every value of `values`; when `values` is not
\* empty it rejects every string (StringEnum) or number (NumberEnum,
\* IntegerEnum) that is not in `values`; and it accepts null exactly when
\* nullable is true.
C6_EnumMembership ==
  (called \in Enums /\ Returned) =>
    /\ \A v \in Elems(parameters.values.e) : Accepts(joiType, v)
    /\ parameters.values.e # <<>> =>
         \A v \in TestValues(called) :
           v \notin Elems(parameters.values.e) => ~Accepts(joiType, v)
    /\ Accepts(joiType, Null) <=> IsTrue(parameters.nullable)

\* IntegerEnum has returned for a one-element `values` with nullable: true, a
\* default outside `values` and required: true.
C6_Witness ==
  /\ called = "IntegerEnum" /\ Returned
  /\ parameters.values = Arr(<<Num(1)>>)
  /\ parameters.nullable = Bool(TRUE) /\ parameters.default = Num(0)
  /\ parameters.required = Bool(TRUE)

\* a minLength or maxLength the builder is handed (it is truthy) and refuses
BadLength(p) ==
  \/ Truthy(p.minLength) /\ ~IsLimit(p.minLength)
  \/ Truthy(p.maxLength) /\ ~IsLimit(p.maxLength)

Rule(name, arg) == [name |-> name, arg |-> arg]

\* the shapes whose descriptor is optional
OptionalDescriptor ==
  (StringBased \cup {"Binary", "Byte", "DateTime", "Date", "Number", "Integer",
                     "Boolean"}) \ Enums

\* C8: called with no descriptor, a shape whose descriptor is optional returns
\* a node that has the base kind and the fixed format rule, format hint,
\* encoding, strictness and forced length bounds of the shape, and no
\* description, requiredness, null-acceptance, default, example or caller
\* bound; the empty descriptor gives the same node.
C8_BareNode ==
  (called \in OptionalDescriptor /\ parameters \in {NoParameters, EmptyParameters}) =>
    /\ Returned
    /\ joiType.description = Undefined /\ joiType.presence = ""
    /\ joiType.valids = {} /\ ~joiType.only
    /\ joiType.default = Undefined /\ joiType.examples = <<>>
    /\ joiType.keys = Undefined /\ joiType.items = <<>>
    /\ joiType.type =
         CASE called \in StringBased \cup {"DateTime", "Date"} -> "string"
           [] called \in {"Binary", "Byte"} -> "binary"
           [] called \in {"Number", "Integer"} -> "number"
           [] called = "Boolean" -> "boolean"
    /\ joiType.rules =
         CASE called = "Email" -> <<Rule("email", Undefined)>>
           [] called = "Uuid" ->
                <<Rule("guid", Str("uuidv4")), Rule("min", Num(36)), Rule("max", Num(36))>>
           [] called = "Uri" -> <<Rule("uri", Undefined)>>
           [] called = "Hostname" -> <<Rule("hostname", Undefined)>>
           [] called = "Ipv4" ->
                <<Rule("ip", Str("ipv4")), Rule("min", Num(7)), Rule("max", Num(15))>>
           [] called = "Ipv6" ->
                <<Rule("ip", Str("ipv6")), Rule("min", Num(3)), Rule("max", Num(45))>>
           [] called = "DateTime" ->
                <<Rule("isoDate", Undefined), Rule("max", Num(24))>>
           [] called = "Date" ->
                <<Rule("isoDate", Undefined), Rule("min", Num(10)), Rule("max", Num(10))>>
           [] called = "Integer" -> <<Rule("integer", Undefined)>>
           [] OTHER -> <<>>
    /\ joiType.metas =
         CASE called = "Password" -> <<"password">>
           [] called = "Uuid" -> <<"uuid">>
           [] called = "Uri" -> <<"uri">>
           [] called = "Hostname" -> <<"hostname">>
           [] called = "Ipv4" -> <<"ipv4">>
           [] called = "Ipv6" -> <<"ipv6">>
           [] called = "Date" -> <<"date">>
           [] OTHER -> <<>>
    /\ joiType.encoding = IF called = "Byte" THEN "base64" ELSE ""
    /\ joiType.convert = IF called = "Boolean" THEN "false" ELSE ""
    /\ Types(called, NoParameters) = Types(called, EmptyParameters)

\* Uuid has returned for a call without a descriptor.
C8_Witness == called = "Uuid" /\ Returned /\ parameters = NoParameters

(***************************************************************************)
(* The entries of a node that come from one descriptor field.              *)
(***************************************************************************)
CommonFields == {"description", "required", "nullable"}
OptionalFields ==
  CommonFields \cup {"minLength", "maxLength", "minValue", "maxValue",
                     "default", "example"}

\* how many entries of node j correspond to field f
Entries(j, f) ==
  CASE f = "description" -> IF j.description = Undefined THEN 0 ELSE 1
    [] f = "required" -> IF j.presence = "" THEN 0 ELSE 1
    [] f = "nullable" -> IF Null \in j.valids THEN 1 ELSE 0
    [] f = "minLength" -> IF j.type = "number" THEN 0 ELSE RuleCount(j, "min")
    [] f = "maxLength" -> IF j.type = "number" THEN 0 ELSE RuleCount(j, "max")
    [] f = "minValue" -> IF j.type = "number" THEN RuleCount(j, "min") ELSE 0
    [] f = "maxValue" -> IF j.type = "number" THEN RuleCount(j, "max") ELSE 0
    [] f = "default" -> IF j.default = Undefined THEN 0 ELSE 1
    [] f = "example" -> Len(j.examples)

\* the entry of field f on node j carries the value v of the descriptor
Carries(j, f, v) ==
  CASE f = "description" -> j.description = v
    [] f = "required" -> j.presence = IF IsTrue(v) THEN "required" ELSE "optional"
    [] f = "nullable" -> Null \in j.valids
    [] f \in {"minLength", "minValue"} -> HasRule(j, "min", v)
    [] f \in {"maxLength", "maxValue"} -> HasRule(j, "max", v)
    [] f = "default" -> j.default = v
    [] f = "example" -> j.examples = <<v>>

\* the entries a shape has of its own: the forced length bounds
Intrinsic(name, f) ==
  IF \/ f = "minLength" /\ name \in {"Uuid", "Ipv4", "Ipv6", "Date"}
     \/ f = "maxLength" /\ name \in {"Uuid", "Ipv4", "Ipv6", "Date", "DateTime"}
  THEN 1 ELSE 0

\* the optional fields of the parameter type of a shape (lines 3-75)
Applicable(name) ==
  CommonFields \cup
    CASE name \in {"String", "Email", "Uri", "Hostname", "Binary", "Byte", "Array"} ->
           {"minLength", "maxLength", "default", "example"}
      [] name = "Password" -> {"minLength", "maxLength"}
      [] name \in {"Uuid", "Ipv4", "Ipv6"} -> {"example"}
      [] name \in {"Number", "Integer"} -> {"minValue", "maxValue", "default", "example"}
      [] OTHER -> {"default", "example"}

\* the optional fields the code of a shape reads and leaves on the node
Honoured(name) ==
  CommonFields \cup
    CASE name \in {"Uuid", "Ipv4", "Ipv6"} -> {"default", "example"}
      [] name \in StringBased \cup {"Binary", "Byte", "Array"} ->
           {"minLength", "maxLength", "default", "example"}
      [] name \in {"DateTime", "Date"} -> {}
      [] name \in Numeric -> {"minValue", "maxValue", "default", "example"}
      [] OTHER -> {"default", "example"}

\* the condition under which the code of a shape applies value v of field f
Guard(name, f, v) ==
  CASE f = "description" -> Truthy(v)
    [] f = "required" -> IF name \in Numeric THEN IsTrue(v) ELSE IsBoolean(v)
    [] f = "nullable" -> IF name \in {"Object", "Array"} THEN Truthy(v) ELSE IsTrue(v)
    [] f \in {"minLength", "maxLength"} -> Truthy(v)
    [] f \in {"minValue", "maxValue"} -> IsNumber(v)
    [] f \in {"default", "example"} ->
         IF name \in Numeric THEN IsNumber(v)
         ELSE IF name = "Boolean" THEN IsBoolean(v)
         ELSE Truthy(v)

\* the mandatory field of the parameter type of a shape
Mandatory(name) ==
  CASE name \in Enums -> {"values"}
    [] name = "Object" -> {"properties"}
    [] name = "Array" -> {"arrayType"}
    [] OTHER -> {}

\* the descriptor carries no field outside the parameter type of the shape
OfType(name, p) ==
  \A f \in (OptionalFields \cup {"values", "properties", "arrayType"})
             \ (Applicable(name) \cup Mandatory(name)) : IsUndefined(p[f])

\* C1 as stated: on the node returned for a descriptor of the shape's
\* parameter type, every optional field the descriptor carries has exactly one
\* entry, and every one it does not carry has none.
C1_Original ==
  (Returned /\ Given(parameters) /\ OfType(called, parameters)) =>
    \A f \in Applicable(called) :
      Entries(joiType, f) = IF IsUndefined(parameters[f]) THEN 0 ELSE 1

\* C1, amended: on the returned node an optional descriptor field has exactly
\* one entry, carrying the value supplied, when the shape honours the field
\* and the value passes the guard of the code (truthy; of boolean type for
\* required, true only on the numeric shapes; true for nullable; of number
\* type on the numeric shapes; of boolean type for default and example of
\* Boolean); every other field, absent or present, adds no entry to the ones
\* the shape has of its own.
C1_FieldEntries ==
  Returned =>
    \A f \in OptionalFields :
      LET applied == f \in Honoured(called) /\ Guard(called, f, parameters[f])
      IN /\ Entries(joiType, f) = Intrinsic(called, f) + (IF applied THEN 1 ELSE 0)
         /\ applied => Carries(joiType, f, parameters[f])

\* String has returned for a descriptor that carries every field of its type,
\* an empty-string default among them.
C1_Witness ==
  /\ called = "String" /\ Returned
  /\ Truthy(parameters.description) /\ parameters.required = Bool(FALSE)
  /\ parameters.nullable = Bool(TRUE)
  /\ Truthy(parameters.minLength) /\ Truthy(parameters.maxLength)
  /\ parameters.default = Str("") /\ Truthy(parameters.example)
====
